---- MODULE Spec2Model ----
(***************************************************************************)
(* Model of gym_ai2thor/envs/ai2thor_env.py: the AI2ThorEnv wrapper that   *)
(* turns a discrete action index into simulator commands.  One action per  *)
(* public method call (reset, step); the simulator (ai2thor controller)    *)
(* and the task object are collaborators whose calls are recorded in log.  *)
(*                                                                         *)
(* Python values are encoded as follows:                                   *)
(*   None / a value       <<>> / <<v>>        (truthy iff non-empty)       *)
(*   float('inf')         Inf, larger than every distance                  *)
(*   a str argument s     <<"str", s>>                                     *)
(*   an inventory dict    <<"dict", objectId, objectType>>                 *)
(***************************************************************************)
EXTENDS Integers, Sequences, FiniteSets

VARIABLES
    config,        \* self.config['env'], as returned by read_config
    action_names,  \* self.action_names
    objects,       \* self.objects: <<>> while the attribute does not exist
    scene,         \* the simulator: the snapshot the scene starts with
    event,         \* self.event: [frame, metadata]
    step_n,        \* self.task.step_n
    prev_state,    \* step's local prev_state of the last step call (<<>>: none)
    post_state,    \* step's local post_state of the last step call (<<>>: none)
    interaction_obj, \* step's local interaction_obj of the last step call
    log,           \* calls on the controller and the task made by the last call
    refs,          \* which Python object self.event and the last step's
                   \* prev_state and post_state refer to (0: None)
    ret            \* the last call: [op, action, raised, reward, done]

vars == <<config, scene, action_names, objects, event, step_n, prev_state, post_state,
          interaction_obj, log, refs, ret>>

----------------------------------------------------------------------------
(* Bounds *)

\* distances reported by the simulator range over 0..MaxDist
MaxDist == 1
\* step is not called once the task's step counter has reached MaxSteps
MaxSteps == 2

Inf == MaxDist + 2

----------------------------------------------------------------------------
(* Module constants and configuration *)

ALL_POSSIBLE_ACTIONS ==
    << "MoveAhead", "MoveBack", "MoveRight", "MoveLeft", "LookUp", "LookDown",
       "RotateRight", "RotateLeft", "OpenObject", "CloseObject",
       "PickupObject", "PutObject" >>

\* faulty variant: a suffix test that misses PutObject (C7 must notice)
EndsWithObjectButPut(s) ==
    s \in {"OpenObject", "CloseObject", "PickupObject"}

\* str.endswith('Object')
EndsWithObject(s) ==
    s \in {"OpenObject", "CloseObject", "PickupObject", "PutObject"}

\* the dictionary read_config returns
DefaultConfig ==
    [ interaction            |-> TRUE,
      pickup_objects         |-> <<"Mug", "Apple", "Book">>,
      acceptable_receptacles |-> <<"CounterTop", "TableTop", "Sink">>,
      openable_objects       |-> <<"Microwave">>,
      scene_id               |-> "FloorPlan28",
      task_name              |-> "PickUp",
      target_object          |-> "Mug" ]

\* configurations the environment is constructed with: the default one, one
\* with other eligibility lists, and one with interaction switched off
Configs ==
    { DefaultConfig,
      [DefaultConfig EXCEPT !.pickup_objects = <<"Mug">>,
                            !.acceptable_receptacles = <<"Microwave">>,
                            !.openable_objects = <<"Book", "Microwave">>],
      [DefaultConfig EXCEPT !.interaction = FALSE] }

\* __init__: self.objects exists only when interaction is enabled
InitObjects(cfg) ==
    IF cfg.interaction
    THEN << [ pickupables |-> cfg.pickup_objects,
              receptacles |-> cfg.acceptable_receptacles,
              openables   |-> cfg.openable_objects ] >>
    ELSE <<>>

\* faulty variant: the interaction names are not filtered out (C8 must notice)
InitActionNamesUnfiltered(cfg) == ALL_POSSIBLE_ACTIONS

\* __init__: self.action_names
InitActionNames(cfg) ==
    IF cfg.interaction
    THEN ALL_POSSIBLE_ACTIONS
    ELSE SelectSeq(ALL_POSSIBLE_ACTIONS, LAMBDA a : ~EndsWithObject(a))

\* faulty variant: only the upper end of the range is tested (C1 must notice)
ActionSpaceContainsNoLowerBound(n, x) == x < n

\* spaces.Discrete(n).contains(x) for an int x
ActionSpaceContains(n, x) == x >= 0 /\ x < n

\* seq[i] of Python, a negative i counting from the end (0-based i)
PyIndex(seq, i) == IF i < 0 THEN seq[Len(seq) + i + 1] ELSE seq[i + 1]

\* x in list, for a str x and a list of str
StrInList(x, list) == \E i \in DOMAIN list : list[i] = x

\* dict == str in Python: values of different types are never equal
DictEqStr(d, s) == FALSE

\* obj in list, for a dict obj and a list of str
DictInList(obj, list) == \E i \in DOMAIN list : DictEqStr(obj, list[i])

----------------------------------------------------------------------------
(* The simulator: the scene and the snapshots it returns *)

\* the objects of the scene in the simulator's enumeration order, with the
\* fields that no command changes
SceneObjects ==
    << [objectId |-> "Mug|1",       name |-> "Mug",       objectType |-> "Mug",
        pickupable |-> TRUE,  receptacle |-> FALSE, openable |-> FALSE,
        receptacleCount |-> 0],
       [objectId |-> "Book|1",      name |-> "Book",      objectType |-> "Book",
        pickupable |-> TRUE,  receptacle |-> FALSE, openable |-> TRUE,
        receptacleCount |-> 0],
       [objectId |-> "Microwave|1", name |-> "Microwave", objectType |-> "Microwave",
        pickupable |-> FALSE, receptacle |-> TRUE,  openable |-> TRUE,
        receptacleCount |-> 1] >>

ObjIdx == DOMAIN SceneObjects

\* how the agent sees one object: visible at a distance, or not visible (the
\* distance of an object that is not visible is reported as MaxDist + 1)
Views ==
    { [visible |-> TRUE, distance |-> d] : d \in 0..MaxDist }
    \cup { [visible |-> FALSE, distance |-> MaxDist + 1] }

\* one entry of event.metadata['objects']
ObjectInfo(i, view, open, contents) ==
    [ objectId   |-> SceneObjects[i].objectId,
      name       |-> SceneObjects[i].name,
      objectType |-> SceneObjects[i].objectType,
      pickupable |-> SceneObjects[i].pickupable,
      receptacle |-> SceneObjects[i].receptacle,
      openable   |-> SceneObjects[i].openable,
      receptacleCount |-> SceneObjects[i].receptacleCount,
      visible    |-> view.visible,
      distance   |-> view.distance,
      isopen     |-> open,
      receptacleObjectIds |-> contents ]

\* event.frame: the picture the simulator renders of the metadata
Render(objs, inv) ==
    << [i \in DOMAIN objs |-> <<objs[i].visible, objs[i].distance, objs[i].isopen>>],
       Len(inv) >>

\* the event the simulator returns for the given metadata
MakeEvent(objs, inv) ==
    [ frame    |-> Render(objs, inv),
      metadata |-> [objects |-> objs, inventoryObjects |-> inv] ]

\* the snapshots a scene can start with: every object in any view, an openable
\* object open or closed, nothing held, nothing inside a receptacle
InitialEvents ==
    { MakeEvent([i \in ObjIdx |-> ObjectInfo(i, v[i], o[i], <<>>)], <<>>) :
        v \in [ObjIdx -> Views],
        o \in { f \in [ObjIdx -> BOOLEAN] :
                  \A i \in ObjIdx : f[i] => SceneObjects[i].openable } }

----------------------------------------------------------------------------
(* Commands sent to the controller *)

LogEntry(call, action, objectId, receptacleObjectId) ==
    [ call |-> call, action |-> action,
      objectId |-> objectId, receptacleObjectId |-> receptacleObjectId ]

\* self.controller.step(dict(action=..., objectId=..., receptacleObjectId=...))
Cmd(action, objectId, receptacleObjectId) ==
    LogEntry("controller.step", action, objectId, receptacleObjectId)

\* the identifier an objectId argument carries
ArgId(arg) == IF arg = <<>> THEN "" ELSE arg[2]

\* OpenObject / CloseObject: the openable object with that id is opened/closed
SimSetOpen(ev, id, open) ==
    MakeEvent(
        [i \in DOMAIN ev.metadata.objects |->
            LET o == ev.metadata.objects[i] IN
            IF o.objectId = id /\ o.openable THEN [o EXCEPT !.isopen = open] ELSE o],
        ev.metadata.inventoryObjects)

\* PickupObject: exactly the targeted object is added to the inventory
SimPickup(ev, id) ==
    LET i == CHOOSE j \in ObjIdx : SceneObjects[j].objectId = id
    IN  MakeEvent(ev.metadata.objects,
                  Append(ev.metadata.inventoryObjects,
                         [objectId |-> id, objectType |-> SceneObjects[i].objectType]))

\* PutObject: the held object leaves the inventory and enters the receptacle
SimPut(ev, id, recId) ==
    MakeEvent(
        [i \in DOMAIN ev.metadata.objects |->
            LET o == ev.metadata.objects[i] IN
            IF o.objectId = recId
            THEN [o EXCEPT !.receptacleObjectIds = Append(@, id)] ELSE o],
        SelectSeq(ev.metadata.inventoryObjects, LAMBDA it : it.objectId # id))

\* the snapshot the simulator returns for an interaction command
SimInteract(ev, cmd) ==
    CASE cmd.action = "OpenObject"   -> SimSetOpen(ev, ArgId(cmd.objectId), TRUE)
      [] cmd.action = "CloseObject"  -> SimSetOpen(ev, ArgId(cmd.objectId), FALSE)
      [] cmd.action = "PickupObject" -> SimPickup(ev, ArgId(cmd.objectId))
      [] cmd.action = "PutObject"    ->
            SimPut(ev, ArgId(cmd.objectId), ArgId(cmd.receptacleObjectId))
      [] OTHER -> ev

\* how a movement changes the view of one object: moving ahead brings what is
\* visible nearer, moving back takes it further (out of sight beyond MaxDist),
\* every other movement turns the camera to what was out of sight
MovedView(action_str, o) ==
    CASE action_str = "MoveAhead" ->
            IF o.visible /\ o.distance > 0
            THEN [o EXCEPT !.distance = @ - 1] ELSE o
      [] action_str = "MoveBack" ->
            IF ~o.visible THEN o
            ELSE IF o.distance < MaxDist THEN [o EXCEPT !.distance = @ + 1]
            ELSE [o EXCEPT !.visible = FALSE, !.distance = MaxDist + 1]
      [] OTHER ->
            IF o.visible THEN [o EXCEPT !.visible = FALSE, !.distance = MaxDist + 1]
            ELSE [o EXCEPT !.visible = TRUE, !.distance = MaxDist]

\* the snapshot the simulator returns for a Move, Look or Rotate command
SimMove(ev, action_str) ==
    MakeEvent([i \in DOMAIN ev.metadata.objects |->
                  MovedView(action_str, ev.metadata.objects[i])],
              ev.metadata.inventoryObjects)

----------------------------------------------------------------------------
(* step: resolution of the target object and dispatch *)

\* faulty variant: objects out of sight are scanned too (C3 must notice)
AllObjectsAsVisible(ev) == ev.metadata.objects

\* visible_objects = [obj for obj in self.event.metadata['objects'] if obj['visible']]
VisibleObjects(ev) == SelectSeq(ev.metadata.objects, LAMBDA o : o.visible)

\* the condition of the PutObject scan
PutCandidate(obj, distance, objs) ==
    /\ obj.receptacle
    /\ obj.distance < distance
    /\ DictInList(obj, objs.receptacles)
    /\ Len(obj.receptacleObjectIds) < obj.receptacleCount

\* faulty variant: the name is not looked up in the pickupables (C6 must notice)
PickupCandidateAnyName(obj, distance, objs) ==
    /\ obj.pickupable
    /\ obj.distance < distance

\* the condition of the PickupObject scan
PickupCandidate(obj, distance, objs) ==
    /\ obj.pickupable
    /\ obj.distance < distance
    /\ StrInList(obj.name, objs.pickupables)

\* faulty variant: the name is not looked up in the openables (C5 must notice)
OpenCandidateAnyName(obj, distance, objs) ==
    /\ obj.openable
    /\ obj.distance < distance

\* the condition of the OpenObject scan
OpenCandidate(obj, distance, objs) ==
    /\ obj.openable
    /\ obj.distance < distance
    /\ StrInList(obj.name, objs.openables)

\* faulty variant: isopen is not tested (C17 must notice)
CloseCandidateAnyState(obj, distance, objs) ==
    /\ obj.openable
    /\ obj.distance < distance
    /\ StrInList(obj.name, objs.openables)

\* the condition of the CloseObject scan
CloseCandidate(obj, distance, objs) ==
    /\ obj.openable
    /\ obj.distance < distance
    /\ obj.isopen
    /\ StrInList(obj.name, objs.openables)

\* the PutObject loop from its k-th iteration on: the closest receptacle
RECURSIVE ScanPut(_, _, _, _, _)
ScanPut(vis, k, closest, distance, objs) ==
    IF k > Len(vis) THEN closest
    ELSE IF PutCandidate(vis[k], distance, objs)
         THEN ScanPut(vis, k + 1, <<vis[k]>>, vis[k].distance, objs)
         ELSE ScanPut(vis, k + 1, closest, distance, objs)

\* the PickupObject loop from its k-th iteration on: distance is never
\* assigned in this loop and stays float('inf')
RECURSIVE ScanPickup(_, _, _, _, _)
ScanPickup(vis, k, closest, distance, objs) ==
    IF k > Len(vis) THEN closest
    ELSE IF PickupCandidate(vis[k], distance, objs)
         THEN ScanPickup(vis, k + 1, <<vis[k]>>, distance, objs)
         ELSE ScanPickup(vis, k + 1, closest, distance, objs)

\* the state of the OpenObject / CloseObject loop after one more iteration:
\* the command is sent inside the loop, once per iteration in which a closest
\* object is known
OpenCloseIter(action_str, obj, st, objs) ==
    LET hit == IF action_str = "OpenObject"
               THEN OpenCandidate(obj, st.distance, objs)
               ELSE CloseCandidate(obj, st.distance, objs)
        closest  == IF hit THEN <<obj>> ELSE st.closest
        distance == IF hit THEN obj.distance ELSE st.distance
        cmd == Cmd(action_str, <<"str", closest[1].objectId>>, <<>>)
    IN  IF closest # <<>>
        THEN [ closest |-> closest, distance |-> distance,
               interaction_obj |-> closest,
               event |-> SimInteract(st.event, cmd),
               cmds  |-> Append(st.cmds, cmd) ]
        ELSE [ st EXCEPT !.closest = closest, !.distance = distance ]

\* the OpenObject / CloseObject loop from its k-th iteration on
RECURSIVE ScanOpenClose(_, _, _, _, _)
ScanOpenClose(action_str, vis, k, st, objs) ==
    IF k > Len(vis) THEN st
    ELSE ScanOpenClose(action_str, vis, k + 1,
                       OpenCloseIter(action_str, vis[k], st, objs), objs)

\* the result of a step that issues no command
NoCommand(ev) == [ event |-> ev, interaction_obj |-> <<>>, cmds |-> <<>>,
                   raised |-> "None" ]

\* lines 91-105
DispatchPut(ev, objs) ==
    LET closest_receptacle == ScanPut(VisibleObjects(ev), 1, <<>>, Inf, objs)
        inv == ev.metadata.inventoryObjects
    IN  IF inv # <<>> /\ closest_receptacle # <<>>
        THEN LET cmd == Cmd("PutObject",
                            <<"dict", inv[1].objectId, inv[1].objectType>>,
                            <<"str", closest_receptacle[1].objectId>>)
             IN  [ event |-> SimInteract(ev, cmd),
                   interaction_obj |-> closest_receptacle,
                   cmds |-> <<cmd>>, raised |-> "None" ]
        ELSE NoCommand(ev)

\* faulty variant: the inventory is not tested before picking up (C4 must
\* notice)
DispatchPickupWhileHolding(ev, objs) ==
    LET closest_pickupable == ScanPickup(VisibleObjects(ev), 1, <<>>, Inf, objs)
    IN  IF closest_pickupable # <<>>
        THEN LET cmd == Cmd("PickupObject",
                            <<"str", closest_pickupable[1].objectId>>, <<>>)
             IN  [ event |-> SimInteract(ev, cmd),
                   interaction_obj |-> closest_pickupable,
                   cmds |-> <<cmd>>, raised |-> "None" ]
        ELSE NoCommand(ev)

\* lines 106-117
DispatchPickup(ev, objs) ==
    LET closest_pickupable == ScanPickup(VisibleObjects(ev), 1, <<>>, Inf, objs)
    IN  IF closest_pickupable # <<>> /\ ev.metadata.inventoryObjects = <<>>
        THEN LET cmd == Cmd("PickupObject",
                            <<"str", closest_pickupable[1].objectId>>, <<>>)
             IN  [ event |-> SimInteract(ev, cmd),
                   interaction_obj |-> closest_pickupable,
                   cmds |-> <<cmd>>, raised |-> "None" ]
        ELSE NoCommand(ev)

\* lines 118-143
DispatchOpenClose(action_str, ev, objs) ==
    LET st == ScanOpenClose(action_str, VisibleObjects(ev), 1,
                            [ closest |-> <<>>, distance |-> Inf,
                              interaction_obj |-> <<>>,
                              event |-> ev, cmds |-> <<>> ],
                            objs)
    IN  [ event |-> st.event, interaction_obj |-> st.interaction_obj,
          cmds |-> st.cmds, raised |-> "None" ]

\* faulty variant: the CloseObject branch tests a misspelt name (C20 must
\* notice)
DispatchInteractionMisspelt(action_str, ev, objs) ==
    CASE action_str = "PutObject"    -> DispatchPut(ev, objs)
      [] action_str = "PickupObject" -> DispatchPickup(ev, objs)
      [] action_str = "OpenObject"   -> DispatchOpenClose(action_str, ev, objs)
      [] action_str = "ClosedObject" -> DispatchOpenClose(action_str, ev, objs)
      [] OTHER -> [NoCommand(ev) EXCEPT !.raised = "InvalidAction"]

\* lines 86-145: the interaction branch of step
DispatchInteraction(action_str, ev, objs) ==
    CASE action_str = "PutObject"    -> DispatchPut(ev, objs)
      [] action_str = "PickupObject" -> DispatchPickup(ev, objs)
      [] action_str = "OpenObject"   -> DispatchOpenClose(action_str, ev, objs)
      [] action_str = "CloseObject"  -> DispatchOpenClose(action_str, ev, objs)
      [] OTHER -> [NoCommand(ev) EXCEPT !.raised = "InvalidAction"]

\* faulty variant: nothing is sent for a movement while no object is in
\* sight (C15 must notice)
DispatchMoveIfVisible(action_str, ev) ==
    IF VisibleObjects(ev) = <<>>
    THEN NoCommand(ev)
    ELSE [ event |-> SimMove(ev, action_str), interaction_obj |-> <<>>,
           cmds |-> <<Cmd(action_str, <<>>, <<>>)>>, raised |-> "None" ]

\* lines 151-153: the Move, Look or Rotate branch of step
DispatchMove(action_str, ev) ==
    [ event |-> SimMove(ev, action_str), interaction_obj |-> <<>>,
      cmds |-> <<Cmd(action_str, <<>>, <<>>)>>, raised |-> "None" ]

----------------------------------------------------------------------------
(* The task (gym_ai2thor.tasks) *)

\* task.reset(): the step counter of the new episode
TaskReset == 0

\* task.transition_reward(prev_state, post_state) of the PickUp task: reward 1
\* and done when the target object type first appears in the inventory
TransitionReward(cfg, prev, post) ==
    LET holds(ev) == \E k \in DOMAIN ev.metadata.inventoryObjects :
                        ev.metadata.inventoryObjects[k].objectType = cfg.target_object
    IN  IF holds(post) /\ ~holds(prev)
        THEN [reward |-> 1, done |-> TRUE]
        ELSE [reward |-> 0, done |-> FALSE]

----------------------------------------------------------------------------
(* The environment's methods *)

\* the action arguments step is called with
StepInputs == -1 .. Len(ALL_POSSIBLE_ACTIONS)

Return(op, action, raised, reward, done) ==
    [ op |-> op, action |-> action, raised |-> raised,
      reward |-> reward, done |-> done ]

\* the write self.task.step_n += 1 and the call of task.transition_reward
StepCountEntry == LogEntry("task.step_n += 1", "", <<>>, <<>>)
TransitionRewardEntry == LogEntry("task.transition_reward", "", <<>>, <<>>)

\* Object identities.  At the start of a call self.event is object 1 and the
\* last step's copies are objects 2 and 3; Canon renumbers the objects at the
\* end of a call the same way, keeping who shares an object with whom.
Canon(e, p, q) ==
    LET p2 == IF p = 0 THEN 0 ELSE IF p = e THEN 1 ELSE 2
        q2 == IF q = 0 THEN 0
              ELSE IF q = e THEN 1
              ELSE IF q = p THEN p2
              ELSE IF p2 = 2 THEN 3 ELSE 2
    IN  [event |-> 1, prev_state |-> p2, post_state |-> q2]

\* faulty variant: the reference is kept instead of a copy (C16 must notice)
DeepcopyShares(id, fresh) == id

\* copy.deepcopy(x): a new object, here the one numbered fresh
Deepcopy(id, fresh) == fresh

\* the object self.event refers to after the dispatch: every controller.step
\* returns a new event object
EventAfter(cmds) == IF cmds = <<>> THEN 1 ELSE 4

\* the calls reset makes, in order
ResetCalls(cfg) ==
    << LogEntry("controller.reset", cfg.scene_id, <<>>, <<>>),
       Cmd("Initialize", <<>>, <<>>),
       LogEntry("task.reset", "", <<>>, <<>>) >>

\* the state after AI2ThorEnv(...) returned: __init__ ends with self.reset()
Init ==
    /\ config \in Configs
    /\ scene \in InitialEvents
    /\ action_names = InitActionNames(config)
    /\ objects = InitObjects(config)
    /\ event = scene
    /\ step_n = TaskReset
    /\ prev_state = <<>>
    /\ post_state = <<>>
    /\ interaction_obj = <<>>
    /\ log = ResetCalls(config)
    /\ refs = Canon(1, 0, 0)
    /\ ret = Return("reset", 0, "None", 0, FALSE)

\* faulty variant: the snapshot Initialize returns is dropped (C9 must notice)
ResetKeepsEvent ==
    /\ log' = ResetCalls(config)
    /\ refs' = refs
    /\ step_n' = TaskReset
    /\ ret' = Return("reset", 0, "None", 0, FALSE)
    /\ UNCHANGED <<config, scene, action_names, objects, event,
                   prev_state, post_state, interaction_obj>>

\* reset(): lines 173-181
Reset ==
    /\ log' = ResetCalls(config)
    /\ event' = scene
    /\ refs' = Canon(4, refs.prev_state, refs.post_state)
    /\ step_n' = TaskReset
    /\ ret' = Return("reset", 0, "None", 0, FALSE)
    /\ UNCHANGED <<config, scene, action_names, objects,
                   prev_state, post_state, interaction_obj>>

\* lines 83-153 of step: what the dispatch of an accepted action does
Dispatch(names, action, ev, objs) ==
    LET action_str == PyIndex(names, action)
    IN  IF EndsWithObject(action_str)
        THEN DispatchInteraction(action_str, ev, objs[1])
        ELSE DispatchMove(action_str, ev)

\* faulty variant: a step that ends the episode starts the next one itself
\* (C10 must notice)
FinishAutoReset(cfg, ev, n, action, r) ==
    LET tr == TransitionReward(cfg, ev, r.event)
        calls == r.cmds \o <<StepCountEntry, TransitionRewardEntry>>
    IN  [ event      |-> IF tr.done THEN scene ELSE r.event,
          step_n     |-> IF tr.done THEN TaskReset ELSE n + 1,
          prev_state |-> <<ev>>,
          post_state |-> <<r.event>>,
          interaction_obj |-> r.interaction_obj,
          log |-> IF tr.done THEN calls \o ResetCalls(cfg) ELSE calls,
          refs |-> Canon(EventAfter(r.cmds), Deepcopy(1, 5),
                         Deepcopy(EventAfter(r.cmds), 6)),
          ret |-> Return("step", action, "None", tr.reward, tr.done) ]

\* faulty variant: a step that sent no command is not counted (C14 must
\* notice)
FinishCountsCommands(cfg, ev, n, action, r) ==
    LET tr == TransitionReward(cfg, ev, r.event)
    IN  [ event      |-> r.event,
          step_n     |-> IF r.cmds = <<>> THEN n ELSE n + 1,
          prev_state |-> <<ev>>,
          post_state |-> <<r.event>>,
          interaction_obj |-> r.interaction_obj,
          log |-> IF r.cmds = <<>> THEN <<TransitionRewardEntry>>
                  ELSE r.cmds \o <<StepCountEntry, TransitionRewardEntry>>,
          refs |-> Canon(EventAfter(r.cmds), Deepcopy(1, 5),
                         Deepcopy(EventAfter(r.cmds), 6)),
          ret |-> Return("step", action, "None", tr.reward, tr.done) ]

\* lines 155-161 of step: the bookkeeping after the dispatch result r, and
\* what step returns (prev_state is the copy taken at line 82, before the
\* dispatch)
Finish(cfg, ev, n, action, r) ==
    LET tr == TransitionReward(cfg, ev, r.event)
    IN  [ event      |-> r.event,
          step_n     |-> n + 1,
          prev_state |-> <<ev>>,
          post_state |-> <<r.event>>,
          interaction_obj |-> r.interaction_obj,
          log |-> r.cmds \o <<StepCountEntry, TransitionRewardEntry>>,
          refs |-> Canon(EventAfter(r.cmds), Deepcopy(1, 5),
                         Deepcopy(EventAfter(r.cmds), 6)),
          ret |-> Return("step", action, "None", tr.reward, tr.done) ]

\* step(action) when the action is not in the action space (lines 79-81), or
\* when the interaction is not a known one (line 145): the exception leaves
\* the method before the bookkeeping
Raise(ev, n, action, prev, r) ==
    [ event      |-> r.event,
      step_n     |-> n,
      prev_state |-> prev,
      post_state |-> <<>>,
      interaction_obj |-> r.interaction_obj,
      log |-> r.cmds,
      refs |-> Canon(EventAfter(r.cmds),
                     IF prev = <<>> THEN 0 ELSE Deepcopy(1, 5), 0),
      ret |-> Return("step", action, "InvalidAction", 0, FALSE) ]

\* step(action): lines 78-161
StepOutcome(cfg, names, objs, ev, n, action) ==
    IF ~ActionSpaceContains(Len(names), action)
    THEN Raise(ev, n, action, <<>>, NoCommand(ev))
    ELSE LET r == Dispatch(names, action, ev, objs)
         IN  IF r.raised # "None"
             THEN Raise(ev, n, action, <<ev>>, r)
             ELSE Finish(cfg, ev, n, action, r)

Step ==
    /\ step_n < MaxSteps
    /\ \E action \in StepInputs :
        \E out \in {StepOutcome(config, action_names, objects, event, step_n, action)} :
            /\ event' = out.event
            /\ step_n' = out.step_n
            /\ prev_state' = out.prev_state
            /\ post_state' = out.post_state
            /\ interaction_obj' = out.interaction_obj
            /\ log' = out.log
            /\ refs' = out.refs
            /\ ret' = out.ret
    /\ UNCHANGED <<config, scene, action_names, objects>>

Next == Reset \/ Step

Spec == Init /\ [][Next]_vars

----------------------------------------------------------------------------
(* Vocabulary of the properties *)

InteractionKinds == {"PickupObject", "PutObject", "OpenObject", "CloseObject"}

\* the last call was a step that returned
Stepped == ret.op = "step" /\ ret.raised = "None"

\* the last call was a step that returned, called with the index of `name`
SteppedWith(name) ==
    /\ Stepped
    /\ ret.action + 1 \in DOMAIN action_names
    /\ action_names[ret.action + 1] = name

\* the commands a call sent to the simulator
CommandsOf(l) == SelectSeq(l, LAMBDA e : e.call = "controller.step")

\* the snapshot before the last step
Pre == prev_state[1]

\* the capability predicate of an interaction kind
Capable(kind, o) ==
    CASE kind = "PickupObject" -> o.pickupable
      [] kind = "PutObject"    -> o.receptacle
      [] kind = "OpenObject"   -> o.openable
      [] kind = "CloseObject"  -> o.openable /\ o.isopen

\* membership of an object in the eligibility set of an interaction kind
InEligibilitySet(kind, o) ==
    LET list == CASE kind = "PickupObject" -> objects[1].pickupables
                  [] kind = "PutObject"    -> objects[1].receptacles
                  [] kind = "OpenObject"   -> objects[1].openables
                  [] kind = "CloseObject"  -> objects[1].openables
    IN  \E k \in DOMAIN list : list[k] = o.name

\* the objects of snapshot ev that are visible, capable and eligible
EligibleVisible(kind, ev) ==
    { i \in DOMAIN ev.metadata.objects :
        /\ ev.metadata.objects[i].visible
        /\ Capable(kind, ev.metadata.objects[i])
        /\ InEligibilitySet(kind, ev.metadata.objects[i]) }

\* the object a command is aimed at
TargetId(cmd) ==
    IF cmd.action = "PutObject" THEN ArgId(cmd.receptacleObjectId)
    ELSE ArgId(cmd.objectId)

Holds(ev, type) ==
    \E k \in DOMAIN ev.metadata.inventoryObjects :
        ev.metadata.inventoryObjects[k].objectType = type

----------------------------------------------------------------------------
(* Properties *)

\* C1: a step whose action index is outside [0, N) fails with InvalidAction,
\* sends no command, and leaves self.event and the task step counter as
\* they were.
C1_InvalidActionAborts ==
    [][ (ret'.op = "step" /\ ~(0 <= ret'.action /\ ret'.action < Len(action_names)))
        => /\ ret'.raised = "InvalidAction"
           /\ CommandsOf(log') = <<>>
           /\ event' = event
           /\ step_n' = step_n ]_vars

C1_Witness ==
    /\ ret.op = "step"
    /\ ret.raised = "InvalidAction"
    /\ ret.action = Len(action_names)
    /\ step_n = 1
    /\ event # scene

\* C2: whenever a step resolves a target object, no visible, capable and
\* eligible object of the pre-step snapshot is nearer than the target.
C2_NearestCandidate ==
    (Stepped /\ interaction_obj # <<>>)
    => \A i \in EligibleVisible(action_names[ret.action + 1], Pre) :
          interaction_obj[1].distance <= Pre.metadata.objects[i].distance

\* C3: every interaction command of a step is aimed at an object that is
\* visible, capable and eligible in the pre-step snapshot, and a Pickup
\* command is sent only when the pre-step inventory is empty.
C3_CommandsTargetEligible ==
    ret.op = "step"
    => \A k \in DOMAIN log :
          (log[k].call = "controller.step" /\ log[k].action \in InteractionKinds)
          => /\ \E i \in EligibleVisible(log[k].action, Pre) :
                   Pre.metadata.objects[i].objectId = TargetId(log[k])
             /\ log[k].action = "PickupObject"
                   => Pre.metadata.inventoryObjects = <<>>

\* a command was sent although a nearer visible capable object, outside the
\* eligibility set, and an eligible object out of sight were in the snapshot
C3_Witness ==
    /\ ret.op = "step"
    /\ \E k \in DOMAIN log :
          /\ log[k].call = "controller.step"
          /\ log[k].action \in InteractionKinds
          /\ \E i, j \in DOMAIN Pre.metadata.objects :
                /\ Pre.metadata.objects[i].objectId = TargetId(log[k])
                /\ Pre.metadata.objects[j].visible
                /\ Capable(log[k].action, Pre.metadata.objects[j])
                /\ ~InEligibilitySet(log[k].action, Pre.metadata.objects[j])
                /\ Pre.metadata.objects[j].distance < Pre.metadata.objects[i].distance

\* C4: the inventory never holds more than one object.
C4_SingleCarry == Len(event.metadata.inventoryObjects) <= 1

\* PickupObject was dispatched while an object was held and an eligible one
\* was in sight
C4_Witness ==
    /\ SteppedWith("PickupObject")
    /\ Len(Pre.metadata.inventoryObjects) = 1
    /\ EligibleVisible("PickupObject", Pre) # {}
    /\ Len(event.metadata.inventoryObjects) = 1

\* C5: a step with an interaction action, taken when no visible object is
\* eligible for it, sends no command, leaves objects, inventory and frame as
\* they were, and advances the step counter by one.
C5_NoOpIdempotent ==
    [][ (/\ ret'.op = "step" /\ ret'.raised = "None"
         /\ action_names[ret'.action + 1] \in InteractionKinds
         /\ EligibleVisible(action_names[ret'.action + 1], event) = {})
        => /\ CommandsOf(log') = <<>>
           /\ event'.metadata.objects = event.metadata.objects
           /\ event'.metadata.inventoryObjects = event.metadata.inventoryObjects
           /\ event'.frame = event.frame
           /\ step_n' = step_n + 1 ]_vars

\* OpenObject was dispatched with only a visible openable object outside the
\* eligibility set
C5_Witness ==
    /\ SteppedWith("OpenObject")
    /\ EligibleVisible("OpenObject", Pre) = {}
    /\ \E i \in DOMAIN Pre.metadata.objects :
          Pre.metadata.objects[i].visible /\ Pre.metadata.objects[i].openable
    /\ event = Pre
    /\ step_n = 2

\* C6: PickupObject with an empty inventory and a visible pickupable eligible
\* object sends one Pickup command, aimed at an eligible object.
C6_PickupSelectsEligible ==
    (/\ SteppedWith("PickupObject")
     /\ Pre.metadata.inventoryObjects = <<>>
     /\ EligibleVisible("PickupObject", Pre) # {})
    => /\ Len(CommandsOf(log)) = 1
       /\ CommandsOf(log)[1].action = "PickupObject"
       /\ \E i \in EligibleVisible("PickupObject", Pre) :
             Pre.metadata.objects[i].objectId = TargetId(CommandsOf(log)[1])

\* eligibility {Mug}: the Mug is picked up although the Book is nearer
C6_Witness ==
    /\ SteppedWith("PickupObject")
    /\ objects[1].pickupables = <<"Mug">>
    /\ Pre.metadata.inventoryObjects = <<>>
    /\ \E i, j \in DOMAIN Pre.metadata.objects :
          /\ Pre.metadata.objects[i].name = "Mug"
          /\ Pre.metadata.objects[i].visible
          /\ Pre.metadata.objects[j].name = "Book"
          /\ Pre.metadata.objects[j].visible
          /\ Pre.metadata.objects[j].pickupable
          /\ Pre.metadata.objects[j].distance < Pre.metadata.objects[i].distance
    /\ TargetId(CommandsOf(log)[1]) = "Mug|1"
    /\ Holds(event, "Mug")

\* C7: PutObject with an empty inventory sends no command and leaves the
\* snapshot as it was.
C7_PutEmptyInventory ==
    (SteppedWith("PutObject") /\ Pre.metadata.inventoryObjects = <<>>)
    => /\ CommandsOf(log) = <<>>
       /\ event = Pre

\* PutObject was dispatched with nothing held and an acceptable receptacle in
\* sight
C7_Witness ==
    /\ SteppedWith("PutObject")
    /\ Pre.metadata.inventoryObjects = <<>>
    /\ EligibleVisible("PutObject", Pre) # {}
    /\ event = Pre

\* C8: 12 actions with interaction, 8 without; no action name occurs at two
\* indices and the names are those of the declared set; without interaction
\* no name ends in 'Object'.
C8_ActionSet ==
    LET movement == {"MoveAhead", "MoveBack", "MoveRight", "MoveLeft",
                     "LookUp", "LookDown", "RotateRight", "RotateLeft"}
        declared == IF config.interaction THEN movement \cup InteractionKinds
                    ELSE movement
    IN  /\ Len(action_names) = IF config.interaction THEN 12 ELSE 8
        /\ \A i, j \in DOMAIN action_names :
              action_names[i] = action_names[j] => i = j
        /\ { action_names[i] : i \in DOMAIN action_names } = declared
        /\ ~config.interaction
              => \A i \in DOMAIN action_names : action_names[i] \notin InteractionKinds

\* without interaction the last index, 7, is accepted and index 8 is not
C8_Witness ==
    /\ ~config.interaction
    /\ Len(action_names) = 8
    /\ SteppedWith("RotateLeft")
    /\ ret.action = 7

\* C9: reset can be called in every state; it resets the scene, then sends
\* Initialize, then resets the task once; afterwards self.event is the
\* snapshot Initialize returned and the step counter is 0.
C9_Reset ==
    /\ ENABLED Reset
    /\ ret.op = "reset"
       => /\ Len(log) = 3
          /\ log[1].call = "controller.reset"
          /\ log[2].call = "controller.step" /\ log[2].action = "Initialize"
          /\ log[3].call = "task.reset"
          /\ event = scene
          /\ step_n = 0

\* reset was called after the step that picked up the target (done = true)
C9_Witness ==
    /\ ret.op = "reset"
    /\ post_state # <<>>
    /\ Holds(post_state[1], config.target_object)
    /\ ~Holds(prev_state[1], config.target_object)
    /\ event = scene
    /\ event.metadata.inventoryObjects = <<>>
    /\ step_n = 0

\* C10: a step never resets the scene, never sends Initialize and never
\* resets the task.
C10_NoAutoReset ==
    ret.op = "step"
    => \A k \in DOMAIN log :
          /\ log[k].call \notin {"controller.reset", "task.reset"}
          /\ log[k].action # "Initialize"

\* a step was taken after an earlier step of the episode had returned done
C10_Witness ==
    /\ Stepped
    /\ Holds(Pre, config.target_object)
    /\ step_n = 2
    /\ event # scene

\* C11: a step with an interaction action sends at most one command, and the
\* command it sends is aimed at the object that is nearest among the visible,
\* capable and eligible ones after the whole scan.
C11_SelectThenActOnce ==
    (Stepped /\ action_names[ret.action + 1] \in InteractionKinds)
    => /\ Len(CommandsOf(log)) <= 1
       /\ \A k \in DOMAIN log :
             log[k].call = "controller.step"
             => /\ interaction_obj # <<>>
                /\ TargetId(log[k]) = interaction_obj[1].objectId

\* C12: PutObject with a held object and a visible acceptable receptacle that
\* is not full sends one Put command, carrying the identifier of the held
\* object and the identifier of the nearest such receptacle.
C12_PutSendsCommand ==
    LET free == { i \in EligibleVisible("PutObject", Pre) :
                    Len(Pre.metadata.objects[i].receptacleObjectIds)
                        < Pre.metadata.objects[i].receptacleCount }
    IN  (/\ SteppedWith("PutObject")
         /\ Pre.metadata.inventoryObjects # <<>>
         /\ free # {})
        => /\ Len(CommandsOf(log)) = 1
           /\ CommandsOf(log)[1].action = "PutObject"
           /\ CommandsOf(log)[1].objectId
                 = <<"str", Pre.metadata.inventoryObjects[1].objectId>>
           /\ \E i \in free :
                 /\ CommandsOf(log)[1].receptacleObjectId
                       = <<"str", Pre.metadata.objects[i].objectId>>
                 /\ \A j \in free : Pre.metadata.objects[i].distance
                                       <= Pre.metadata.objects[j].distance

\* C13: when several visible, capable and eligible objects share the smallest
\* distance, the target of the step is the one that comes first in the
\* snapshot's objects.
C13_TieFirstSeen ==
    (Stepped /\ interaction_obj # <<>>)
    => LET kind  == action_names[ret.action + 1]
           cands == EligibleVisible(kind, Pre)
           near  == { i \in cands : \A j \in cands :
                        Pre.metadata.objects[i].distance
                            <= Pre.metadata.objects[j].distance }
       IN  Cardinality(near) >= 2
           => \E i \in near :
                 /\ \A j \in near : i <= j
                 /\ interaction_obj[1].objectId = Pre.metadata.objects[i].objectId

\* the same for OpenObject and CloseObject alone, whose scans update distance
C13_TieFirstSeenOpenClose ==
    (Stepped /\ interaction_obj # <<>>
        /\ action_names[ret.action + 1] \in {"OpenObject", "CloseObject"})
    => LET kind  == action_names[ret.action + 1]
           cands == EligibleVisible(kind, Pre)
           near  == { i \in cands : \A j \in cands :
                        Pre.metadata.objects[i].distance
                            <= Pre.metadata.objects[j].distance }
       IN  Cardinality(near) >= 2
           => \E i \in near :
                 /\ \A j \in near : i <= j
                 /\ interaction_obj[1].objectId = Pre.metadata.objects[i].objectId

\* C14: every step call that returns increments the task step counter by
\* exactly one, whatever the action and whether or not a command was sent.
C14_StepCounts ==
    [][ (ret'.op = "step" /\ ret'.raised = "None") => step_n' = step_n + 1 ]_vars

\* after a movement step, an interaction that sent no command was counted too
C14_Witness ==
    /\ Stepped
    /\ action_names[ret.action + 1] \in InteractionKinds
    /\ CommandsOf(log) = <<>>
    /\ Pre # scene
    /\ step_n = 2

\* C15: a step with a Move, Look or Rotate action sends exactly one command,
\* which carries the action name and no object identifier, whatever the
\* snapshot, the inventory and the eligibility lists are.
C15_MovementOneCommand ==
    (Stepped /\ action_names[ret.action + 1] \notin InteractionKinds)
    => /\ Len(CommandsOf(log)) = 1
       /\ CommandsOf(log)[1].action = action_names[ret.action + 1]
       /\ CommandsOf(log)[1].objectId = <<>>
       /\ CommandsOf(log)[1].receptacleObjectId = <<>>

\* a movement dispatched while an object was held and eligible objects were
\* in sight
C15_Witness ==
    /\ SteppedWith("LookDown")
    /\ Pre.metadata.inventoryObjects # <<>>
    /\ EligibleVisible("OpenObject", Pre) # {}
    /\ Len(CommandsOf(log)) = 1

\* C16: a step that returns calls task.transition_reward exactly once, as its
\* last call and after the step counter was incremented, with a copy of the
\* snapshot from before any command of the step and a copy of the snapshot
\* after the dispatch; neither copy is the object self.event refers to.
C16_TransitionRewardCall ==
    [][ (ret'.op = "step" /\ ret'.raised = "None")
        => /\ Cardinality({ k \in DOMAIN log' :
                              log'[k].call = "task.transition_reward" }) = 1
           /\ log'[Len(log')].call = "task.transition_reward"
           /\ Len(log') >= 2
           /\ log'[Len(log') - 1].call = "task.step_n += 1"
           /\ step_n' = step_n + 1
           /\ prev_state' = <<event>>
           /\ post_state' = <<event'>>
           /\ refs'.prev_state \notin {0, refs'.event}
           /\ refs'.post_state \notin {0, refs'.event}
           /\ refs'.prev_state # refs'.post_state ]_vars

\* an OpenObject step that sent two commands: prev_state is the snapshot from
\* before the first one
C16_Witness ==
    /\ SteppedWith("OpenObject")
    /\ Len(CommandsOf(log)) = 2
    /\ CommandsOf(log)[1].objectId # CommandsOf(log)[2].objectId
    /\ prev_state[1] # post_state[1]
    /\ post_state[1] = event
    /\ \A i \in DOMAIN Pre.metadata.objects : ~Pre.metadata.objects[i].isopen

\* C17: every CloseObject command is aimed at an object that is open in the
\* pre-step snapshot.
C17_CloseTargetsOpen ==
    ret.op = "step"
    => \A k \in DOMAIN log :
          (log[k].call = "controller.step" /\ log[k].action = "CloseObject")
          => \E i \in DOMAIN Pre.metadata.objects :
                /\ Pre.metadata.objects[i].objectId = TargetId(log[k])
                /\ Pre.metadata.objects[i].isopen

\* a CloseObject command went to an open object although a closed eligible
\* one was nearer
C17_Witness ==
    /\ SteppedWith("CloseObject")
    /\ CommandsOf(log) # <<>>
    /\ \E i, j \in DOMAIN Pre.metadata.objects :
          /\ Pre.metadata.objects[i].objectId = TargetId(CommandsOf(log)[1])
          /\ Pre.metadata.objects[j].visible
          /\ Pre.metadata.objects[j].openable
          /\ InEligibilitySet("CloseObject", Pre.metadata.objects[j])
          /\ ~Pre.metadata.objects[j].isopen
          /\ Pre.metadata.objects[j].distance < Pre.metadata.objects[i].distance
    /\ \A i \in DOMAIN event.metadata.objects : ~event.metadata.objects[i].isopen

\* C18: every OpenObject command is aimed at an object that is not open in
\* the pre-step snapshot.
C18_OpenTargetsClosed ==
    ret.op = "step"
    => \A k \in DOMAIN log :
          (log[k].call = "controller.step" /\ log[k].action = "OpenObject")
          => \E i \in DOMAIN Pre.metadata.objects :
                /\ Pre.metadata.objects[i].objectId = TargetId(log[k])
                /\ ~Pre.metadata.objects[i].isopen

\* C19: with interaction disabled, self.objects does not exist, no index the
\* range check accepts names an interaction, and no step sends a Pickup, Put,
\* Open or Close command or resolves a target object.
C19_NoInteractionWhenDisabled ==
    ~config.interaction
    => /\ objects = <<>>
       /\ \A a \in 0 .. Len(action_names) - 1 :
             action_names[a + 1] \notin InteractionKinds
       /\ ret.op = "step"
             => /\ interaction_obj = <<>>
                /\ \A k \in DOMAIN log : log[k].action \notin InteractionKinds
                /\ ret.raised = "None" => Len(CommandsOf(log)) = 1

\* with interaction disabled, after a movement step, the index that names
\* OpenObject when interaction is enabled was refused
C19_Witness ==
    /\ ~config.interaction
    /\ step_n = 1
    /\ event # scene
    /\ ret.op = "step"
    /\ ret.raised = "InvalidAction"
    /\ ret.action = 8
    /\ \E i \in DOMAIN event.metadata.objects :
          event.metadata.objects[i].visible /\ event.metadata.objects[i].openable

\* C20: every action index the range check accepts is handled by the movement
\* branch or by one of the four interaction branches: 'Invalid interaction'
\* is never raised.
C20_InvalidInteractionUnreachable ==
    /\ \A a \in 0 .. Len(action_names) - 1 :
          EndsWithObject(action_names[a + 1])
             => action_names[a + 1] \in InteractionKinds
    /\ (ret.op = "step" /\ 0 <= ret.action /\ ret.action < Len(action_names))
          => ret.raised = "None"

\* an interaction index was dispatched and the step returned
C20_Witness ==
    /\ SteppedWith("CloseObject")
    /\ config.interaction
    /\ step_n = 2
    /\ post_state # <<>>

====
